---- MODULE Spec2Model ----
(***************************************************************************)
(* Model of RustDocParser (crates/crate-api/src/rustdoc.rs): the traversal *)
(* of a deserialized rustdoc JSON document into the arenas of crate::Api,  *)
(* followed by the pass over the deferred imports.                         *)
(*                                                                         *)
(* Option<T> is modelled as a sequence of length at most one: None is <<>> *)
(* and Some(x) is <<x>>.  A handle (CrateId, PathId, ItemId) is the        *)
(* position of its entry in the arena, counted from 1.  A HashMap is a     *)
(* function whose DOMAIN is the set of keys inserted so far.               *)
(***************************************************************************)
EXTENDS Integers, Sequences, FiniteSets, TLC

VARIABLES
    raw,               \* the deserialized rustdoc_json_types_fork::Crate
    unprocessed,       \* RustDocParser.unprocessed
    deferred_imports,  \* RustDocParser.deferred_imports
    crates,            \* RustDocParser.api.crates
    paths,             \* RustDocParser.api.paths
    items,             \* RustDocParser.api.items
    root_id,           \* RustDocParser.api.root_id
    crate_ids,         \* RustDocParser.crate_ids
    path_ids,          \* RustDocParser.path_ids
    item_ids,          \* RustDocParser.item_ids
    pc,                \* position in parse(): "start", "loop", "deferred", or how
                       \* it ended: "done" (Ok), "error" (Err), "abort" (panic)
    next_deferred,     \* position of the for loop in deferred_imports
    last,              \* locals of the last iteration of the while loop
    visits,            \* per raw id: what the iterations that popped it did
    deferred_before    \* api.paths as each iteration of the for loop found it

vars == <<raw, unprocessed, deferred_imports, crates, paths, items, root_id,
          crate_ids, path_ids, item_ids, pc, next_deferred, last, visits,
          deferred_before>>

(***************************************************************************)
(* Bounds of the model.                                                    *)
(***************************************************************************)
\* Number of raw ids of a document.
NumIds == 3

Ids == 1..NumIds

(***************************************************************************)
(* Option<T>.                                                              *)
(***************************************************************************)
None == <<>>

Some(x) == <<x>>

IsSome(o) == o # <<>>

Unwrap(o) == o[1]

\* Variant: the Option as it is, without the alternative.
OptionOrNothing(o, other) == o

\* Option::or
OptionOr(o, other) == IF IsSome(o) THEN o ELSE other

\* slice::join(sep) on a Vec<String>
RECURSIVE Join(_, _)
Join(segs, sep) ==
    IF segs = <<>> THEN ""
    ELSE IF Len(segs) = 1 THEN segs[1]
    ELSE segs[1] \o sep \o Join(Tail(segs), sep)

\* HashMap::insert
MapInsert(m, k, v) == (k :> v) @@ m

(***************************************************************************)
(* The raw documents.  An id's descriptor in `index` and its entry in      *)
(* `paths` are Options; every descriptor carries the fields of all the     *)
(* ItemEnum variants the parser reads (items: the members of a module,     *)
(* trait or impl, or the variants of an enum; import_id and import_name:   *)
(* the target and the name of an import).  The kinds are written as the    *)
(* JSON writes them (snake_case).                                          *)
(***************************************************************************)
ItemNames == <<"lib", "f", "g", "h", "k">>

NameOf(i) == ItemNames[((i - 1) % Len(ItemNames)) + 1]

\* The k-th id after i, cyclically.
Succ(i, k) == ((i - 1 + k) % NumIds) + 1

SpanOf(i) ==
    IF i = 1 THEN None
    ELSE Some([filename |-> "lib.rs", begin |-> <<i, 1>>, end |-> <<i, 9>>])

RawItem(i, inner, crate_id, members, import_id) ==
    [inner |-> inner, crate_id |-> crate_id, name |-> Some(NameOf(i)),
     span |-> SpanOf(i), items |-> members, import_id |-> import_id,
     import_name |-> NameOf(i)]

\* An item of crate 0 is listed under the root module "lib", an item of
\* another crate under "dep".
RawSummary(i, kind, crate_id) ==
    [kind |-> kind,
     path |-> IF i = 1 THEN <<"lib">>
              ELSE <<IF crate_id = 0 THEN "lib" ELSE "dep", NameOf(i)>>]

Entry(item, summary) == [item |-> item, summary |-> summary]

\* Containers listed in the path table are modules, traits and enums; impl
\* blocks have no entry there.
ListedContainer(i) ==
    CASE i % 3 = 1 -> "module"
      [] i % 3 = 2 -> "trait"
      [] OTHER     -> "enum"

UnlistedContainer(i) == IF i = 1 THEN "module" ELSE "impl"

ContainerCrate(i) == IF i = 1 THEN 0 ELSE 7

\* What a document may hold for id i.
Entries(i) ==
    LET s1 == Succ(i, 1)
        s2 == Succ(i, 2)
        listed(members) ==
            Entry(Some(RawItem(i, ListedContainer(i), ContainerCrate(i), members, None)),
                  Some(RawSummary(i, ListedContainer(i), ContainerCrate(i))))
        unlisted(members) ==
            Entry(Some(RawItem(i, UnlistedContainer(i), ContainerCrate(i), members, None)),
                  None)
        import(target) ==
            Entry(Some(RawItem(i, "import", 0, <<>>, target)), None)
    IN << Entry(None, None),
          Entry(Some(RawItem(i, "function", 0, <<>>, None)), Some(RawSummary(i, "function", 0))),
          Entry(Some(RawItem(i, "function", 7, <<>>, None)), Some(RawSummary(i, "function", 7))),
          Entry(Some(RawItem(i, "function", 9, <<>>, None)), None),
          Entry(Some(RawItem(i, "struct_field", 9, <<>>, None)), Some(RawSummary(i, "struct_field", 9))),
          import(None),
          import(Some(s1)),
          import(Some(s2)),
          Entry(Some(RawItem(i, "import", 0, <<>>, Some(s1))), Some(RawSummary(i, "import", 0))),
          listed(<<>>),
          listed(<<s1>>),
          listed(<<s2>>),
          listed(<<s1, s2>>),
          unlisted(<<s1>>),
          unlisted(<<s2>>),
          unlisted(<<s1, s2>>) >>

NumEntries == Len(Entries(1))

ExternalCrates == (7 :> [name |-> "dep"]) @@ (9 :> [name |-> "core"])

RawDoc(choice) ==
    [root |-> 1,
     index |-> [i \in Ids |-> Entries(i)[choice[i]].item],
     paths |-> [i \in Ids |-> Entries(i)[choice[i]].summary],
     external_crates |-> ExternalCrates]

(***************************************************************************)
(* crate::Api: the entities and the arenas.                                *)
(***************************************************************************)
CrateNew(name) == [name |-> name]

PathNew(kind, path) ==
    [kind |-> kind, path |-> path, crate_id |-> None, item_id |-> None,
     span |-> None, children |-> <<>>]

ItemNew == [crate_id |-> None, name |-> None, span |-> None]

\* The handle push() returns for the entry it appends.
NextHandle(arena) == Len(arena) + 1

Push(arena, x) == Append(arena, x)

\* Arena lookup by handle: get(), get_mut().
Get(arena, handle) ==
    IF handle \in 1..Len(arena) THEN Some(arena[handle]) ELSE None

(***************************************************************************)
(* _convert_path_kind: ItemKind to PathKind; the StructField arm is        *)
(* unreachable!().                                                         *)
(***************************************************************************)
Unreachable == "unreachable!"

convert_path_kind(kind) ==
    CASE kind = "module"         -> "Module"
      [] kind = "extern_crate"   -> "ExternCrate"
      [] kind = "import"         -> "Import"
      [] kind = "struct"         -> "Struct"
      [] kind = "union"          -> "Union"
      [] kind = "enum"           -> "Enum"
      [] kind = "variant"        -> "Variant"
      [] kind = "function"       -> "Function"
      [] kind = "typedef"        -> "Typedef"
      [] kind = "opaque_ty"      -> "OpaqueTy"
      [] kind = "constant"       -> "Constant"
      [] kind = "trait"          -> "Trait"
      [] kind = "trait_alias"    -> "TraitAlias"
      [] kind = "method"         -> "Method"
      [] kind = "impl"           -> "Impl"
      [] kind = "static"         -> "Static"
      [] kind = "foreign_type"   -> "ForeignType"
      [] kind = "macro"          -> "Macro"
      [] kind = "proc_attribute" -> "ProcAttribute"
      [] kind = "proc_derive"    -> "ProcDerive"
      [] kind = "assoc_const"    -> "AssocConst"
      [] kind = "assoc_type"     -> "AssocType"
      [] kind = "primitive"      -> "Primitive"
      [] kind = "keyword"        -> "Keyword"
      [] kind = "struct_field"   -> Unreachable

\* raw_item.span.clone().map(|raw_span| crate::Span { .. })
ConvertSpan(raw_span) ==
    IF IsSome(raw_span)
    THEN Some([filename |-> Unwrap(raw_span).filename,
               begin |-> Unwrap(raw_span).begin,
               end |-> Unwrap(raw_span).end])
    ELSE None

(***************************************************************************)
(* The parser.  Its methods take the parser's state as a record `self`     *)
(* and return the state they leave with the value they return; a panic     *)
(* sets self.panicked, and the state stays as the panic found it.          *)
(***************************************************************************)
Self ==
    [unprocessed |-> unprocessed, deferred_imports |-> deferred_imports,
     crates |-> crates, paths |-> paths, items |-> items, root_id |-> root_id,
     crate_ids |-> crate_ids, path_ids |-> path_ids, item_ids |-> item_ids,
     panicked |-> FALSE]

\* Variant: the panic is not raised, and the method goes on.
PanicIgnored(self) == self

\* expect(), unwrap(), assert_ne!() or unreachable!() failing
Panic(self) == [self EXCEPT !.panicked = TRUE]

Return(self, ret) == [self |-> self, ret |-> ret]

\* Variant: _parse_crate without its memo lookup.
CrateMemoNever(self, raw_crate_id) == FALSE

\* The memo lookup that opens _parse_crate.
CrateMemoHit(self, raw_crate_id) == raw_crate_id \in DOMAIN self.crate_ids

\* _parse_crate
parse_crate(self, raw_crate_id) ==
    IF CrateMemoHit(self, raw_crate_id)
    THEN Return(self, self.crate_ids[raw_crate_id])
    ELSE IF raw_crate_id # 0
    THEN IF raw_crate_id \notin DOMAIN raw.external_crates
         THEN Return(Panic(self), None)
         ELSE LET crate_ == CrateNew(raw.external_crates[raw_crate_id].name)
                  crate_id == Some(NextHandle(self.crates))
              IN Return([self EXCEPT
                            !.crates = Push(@, crate_),
                            !.crate_ids = MapInsert(@, raw_crate_id, crate_id)],
                        crate_id)
    ELSE Return([self EXCEPT !.crate_ids = MapInsert(@, raw_crate_id, None)], None)

\* Variant: _parse_path without its memo lookup.
PathMemoNever(self, raw_item_id) == FALSE

\* The memo lookup that opens _parse_path.
PathMemoHit(self, raw_item_id) == raw_item_id \in DOMAIN self.path_ids

\* Variant: the child is put on the list twice.
PushChildTwice(arena, parent_path_id, path_id) ==
    [arena EXCEPT ![parent_path_id].children = Append(Append(@, path_id), path_id)]

\* Variant: the child is put at the front of the list.
PushChildFront(arena, parent_path_id, path_id) ==
    [arena EXCEPT ![parent_path_id].children = <<path_id>> \o @]

\* paths.get_mut(parent_path_id).children.push(path_id)
PushChild(arena, parent_path_id, path_id) ==
    [arena EXCEPT ![parent_path_id].children = Append(@, path_id)]

\* Variant: a plain assignment in place of get_or_insert.
InsertAlways(option, value) == Some(value)

\* Option::get_or_insert on api.root_id
GetOrInsert(option, value) == IF IsSome(option) THEN option ELSE Some(value)

\* _parse_path
parse_path(self, parent_path_id, raw_item_id, crate_id) ==
    IF PathMemoHit(self, raw_item_id)
    THEN Return(self, self.path_ids[raw_item_id])
    ELSE IF ~IsSome(raw.paths[raw_item_id])
    THEN Return([self EXCEPT !.path_ids = MapInsert(@, raw_item_id, None)], None)
    ELSE LET raw_path == Unwrap(raw.paths[raw_item_id])
             kind == convert_path_kind(raw_path.kind)
         IN IF ~IsSome(raw.index[raw_item_id]) \/ kind = Unreachable
            THEN Return(Panic(self), None)
            ELSE LET raw_item == Unwrap(raw.index[raw_item_id])
                     path == [PathNew(kind, Join(raw_path.path, "::")) EXCEPT
                                 !.crate_id = crate_id,
                                 !.span = ConvertSpan(raw_item.span)]
                     path_id == NextHandle(self.paths)
                     pushed == [self EXCEPT !.paths = Push(@, path)]
                 IN IF IsSome(parent_path_id)
                       /\ ~IsSome(Get(pushed.paths, Unwrap(parent_path_id)))
                    THEN Return(Panic(pushed), None)
                    ELSE Return(
                        [pushed EXCEPT
                            !.paths = IF IsSome(parent_path_id)
                                      THEN PushChild(@, Unwrap(parent_path_id), path_id)
                                      ELSE @,
                            !.root_id = GetOrInsert(@, path_id),
                            !.path_ids = MapInsert(@, raw_item_id, Some(path_id))],
                        Some(path_id))

\* Variant: _parse_item without its memo lookup.
ItemMemoNever(self, raw_item_id) == FALSE

\* The memo lookup that opens _parse_item.
ItemMemoHit(self, raw_item_id) == raw_item_id \in DOMAIN self.item_ids

\* The ItemEnum variants whose members the parser enqueues.
IsContainer(inner) == inner \in {"module", "trait", "impl", "enum"}

\* Variant: the members are queued under the handle after path_id.
ExtendDangling(queue, path_id, members) ==
    queue \o [k \in 1..Len(members) |->
                 <<IF IsSome(path_id) THEN Some(Unwrap(path_id) + 1) ELSE None,
                   members[k]>>]

\* unprocessed.extend(members.iter().map(move |i| (path_id, i.clone())))
Extend(queue, path_id, members) ==
    queue \o [k \in 1..Len(members) |-> <<path_id, members[k]>>]

\* Variant: the path is left without the item's handle.
SetItemIdNever(arena, path_id, item_id) == arena

\* paths.get_mut(path_id).item_id = Some(item_id)
SetItemId(arena, path_id, item_id) ==
    [arena EXCEPT ![path_id].item_id = Some(item_id)]

\* The arm of _parse_item for a module, trait, impl or enum.
ContainerArm(self, raw_item, path_id) ==
    Return([self EXCEPT !.unprocessed = Extend(@, path_id, raw_item.items)], None)

\* Variant: the import's target is not queued.
EnqueueNoTarget(queue, path_id, raw_target_id) == queue

\* unprocessed.push_back((path_id, raw_target_id.clone()))
EnqueueTarget(queue, path_id, raw_target_id) ==
    Append(queue, <<path_id, raw_target_id>>)

\* The arm of _parse_item for an import.
ImportArm(self, raw_item, path_id) ==
    IF ~IsSome(raw_item.import_id)
    THEN Return(Panic(self), None)
    ELSE LET raw_target_id == Unwrap(raw_item.import_id)
             queued == [self EXCEPT
                           !.unprocessed = EnqueueTarget(@, path_id, raw_target_id)]
         IN IF ~IsSome(path_id)
            THEN Return(Panic(queued), None)
            ELSE Return(
                [queued EXCEPT
                    !.deferred_imports =
                        Append(@, <<Unwrap(path_id), raw_item.import_name, raw_target_id>>)],
                None)

\* The arm of _parse_item for every other kind of item.
LeafArm(self, raw_item, path_id, crate_id) ==
    IF ~IsSome(self.root_id)
    THEN Return(Panic(self), None)
    ELSE LET item == [ItemNew EXCEPT
                         !.crate_id = crate_id,
                         !.name = raw_item.name,
                         !.span = ConvertSpan(raw_item.span)]
             item_id == NextHandle(self.items)
             pushed == [self EXCEPT !.items = Push(@, item)]
         IN IF IsSome(path_id) /\ ~IsSome(Get(pushed.paths, Unwrap(path_id)))
            THEN Return(Panic(pushed), None)
            ELSE Return(
                [pushed EXCEPT
                    !.paths = IF IsSome(path_id)
                              THEN SetItemId(@, Unwrap(path_id), item_id)
                              ELSE @],
                Some(item_id))

\* _parse_item
parse_item(self, raw_item_id, path_id, crate_id) ==
    IF ItemMemoHit(self, raw_item_id)
    THEN Return(self, self.item_ids[raw_item_id])
    ELSE IF ~IsSome(raw.index[raw_item_id])
    THEN Return(Panic(self), None)
    ELSE LET raw_item == Unwrap(raw.index[raw_item_id])
             arm == IF IsContainer(raw_item.inner)
                    THEN ContainerArm(self, raw_item, path_id)
                    ELSE IF raw_item.inner = "import"
                    THEN ImportArm(self, raw_item, path_id)
                    ELSE LeafArm(self, raw_item, path_id, crate_id)
         IN IF arm.self.panicked
            THEN arm
            ELSE Return(
                [arm.self EXCEPT !.item_ids = MapInsert(@, raw_item_id, arm.ret)],
                arm.ret)

\* Variant: the front entry is read and left in the queue.
PeekFront(queue) == queue

\* VecDeque::pop_front: the queue it leaves.
PopFront(queue) == Tail(queue)

\* One iteration of the while loop of parse(): the state it leaves and its
\* locals.  stage names how far the iteration came: "index" (the id is not
\* in `index`), "crate", "path", "item" (the panic was in that call), "end".
LoopBody(self0) ==
    LET entry == Head(self0.unprocessed)
        parent_path_id == entry[1]
        raw_item_id == entry[2]
        popped == [self0 EXCEPT !.unprocessed = PopFront(@)]
        locals(self, stage, crate_id, path_ret, path_id, item_ret, mid) ==
            [self |-> self, stage |-> stage, parent_path_id |-> parent_path_id,
             raw_item_id |-> raw_item_id, crate_id |-> crate_id,
             path_ret |-> path_ret, path_id |-> path_id, item_ret |-> item_ret,
             after_path |-> mid]
    IN IF ~IsSome(raw.index[raw_item_id])
       THEN locals(Panic(popped), "index", None, None, None, None, popped.paths)
       ELSE
       LET raw_item == Unwrap(raw.index[raw_item_id])
           c == parse_crate(popped, raw_item.crate_id)
       IN IF c.self.panicked
          THEN locals(c.self, "crate", None, None, None, None, c.self.paths)
          ELSE
          LET p == parse_path(c.self, parent_path_id, raw_item_id, c.ret)
              path_id == OptionOr(p.ret, parent_path_id)
          IN IF p.self.panicked
             THEN locals(p.self, "path", c.ret, None, None, None, p.self.paths)
             ELSE
             LET i == parse_item(p.self, raw_item_id, path_id, c.ret)
             IN locals(i.self, IF i.self.panicked THEN "item" ELSE "end",
                       c.ret, p.ret, path_id, i.ret, p.self.paths)

\* format!("{}::{}", parent_path.path, name)
AliasName(parent_name, name) == parent_name \o "::" \o name

\* Variant: the alias does not take over the target's children.
AliasPathWithoutChildren(parent_path, target_path, name) ==
    [PathNew("Import", AliasName(parent_path.path, name)) EXCEPT
        !.crate_id = parent_path.crate_id,
        !.item_id = target_path.item_id]

\* The path the for loop of parse() builds for one deferred import.
AliasPath(parent_path, target_path, name) ==
    [PathNew("Import", AliasName(parent_path.path, name)) EXCEPT
        !.crate_id = parent_path.crate_id,
        !.item_id = target_path.item_id,
        !.children = target_path.children]

\* Variant: a target without a path stands for the first path.
TargetPathIdOrFirst(memo, raw_target_id) ==
    IF raw_target_id \in DOMAIN memo /\ IsSome(memo[raw_target_id])
    THEN memo[raw_target_id]
    ELSE Some(NextHandle(<<>>))

\* self.path_ids.get(&raw_target_id).unwrap().unwrap(): the handle, or
\* None where one of the two unwrap() panics.
TargetPathId(memo, raw_target_id) ==
    IF raw_target_id \in DOMAIN memo THEN memo[raw_target_id] ELSE None

\* One iteration of the for loop of parse() over deferred_imports.
DeferredBody(self, task) ==
    LET parent_path_id == task[1]
        name == task[2]
        raw_target_id == task[3]
        target == TargetPathId(self.path_ids, raw_target_id)
    IN IF ~IsSome(target)
       THEN Panic(self)
       ELSE
       LET target_path_id == Unwrap(target)
       IN IF ~IsSome(Get(self.paths, target_path_id))
             \/ ~IsSome(Get(self.paths, parent_path_id))
          THEN Panic(self)
          ELSE
          LET target_path == Unwrap(Get(self.paths, target_path_id))
              parent_path == Unwrap(Get(self.paths, parent_path_id))
              path == AliasPath(parent_path, target_path, name)
              path_id == NextHandle(self.paths)
          IN [self EXCEPT
                 !.paths = PushChild(Push(@, path), parent_path_id, path_id)]

(***************************************************************************)
(* History of the iterations, per raw id: whether it was popped, and       *)
(* popped again; the parents it was popped with; how many paths and items  *)
(* its iterations pushed; and the values that _parse_crate, _parse_path    *)
(* and _parse_item returned for it.                                        *)
(***************************************************************************)
NoVisit ==
    [popped |-> FALSE, repopped |-> FALSE, parents |-> {},
     paths_made |-> 0, items_made |-> 0,
     crate_rets |-> {}, path_rets |-> {}, item_rets |-> {}]

Record(visit, self0, b) ==
    [popped |-> TRUE,
     repopped |-> visit.popped,
     parents |-> visit.parents \cup {b.parent_path_id},
     paths_made |-> visit.paths_made + (Len(b.after_path) - Len(self0.paths)),
     items_made |-> visit.items_made + (Len(b.self.items) - Len(self0.items)),
     crate_rets |-> IF b.stage \in {"path", "item", "end"}
                    THEN visit.crate_rets \cup {b.crate_id}
                    ELSE visit.crate_rets,
     path_rets |-> IF b.stage \in {"item", "end"}
                   THEN visit.path_rets \cup {b.path_ret}
                   ELSE visit.path_rets,
     item_rets |-> IF b.stage = "end"
                   THEN visit.item_rets \cup {b.item_ret}
                   ELSE visit.item_rets]

NoLocals ==
    [stage |-> "none", parent_path_id |-> None, raw_item_id |-> 0,
     crate_id |-> None, path_ret |-> None, path_id |-> None,
     item_ret |-> None, after_path |-> <<>>]

Locals(b) ==
    [stage |-> b.stage, parent_path_id |-> b.parent_path_id,
     raw_item_id |-> b.raw_item_id, crate_id |-> b.crate_id,
     path_ret |-> b.path_ret, path_id |-> b.path_id,
     item_ret |-> b.item_ret, after_path |-> b.after_path]

(***************************************************************************)
(* The state machine: parse() after the document is deserialized.          *)
(***************************************************************************)
\* The documents of the model.
RawDocs == {RawDoc(choice) : choice \in [Ids -> 1..NumEntries]}

\* No document yet: what `raw` holds before serde_json::from_str.
NoDoc ==
    [root |-> 1, index |-> [i \in Ids |-> None], paths |-> [i \in Ids |-> None],
     external_crates |-> <<>>]

\* RustDocParser::new(), and parse() entered.
Init ==
    /\ raw = NoDoc
    /\ unprocessed = <<>>
    /\ deferred_imports = <<>>
    /\ crates = <<>>
    /\ paths = <<>>
    /\ items = <<>>
    /\ root_id = None
    /\ crate_ids = <<>>
    /\ path_ids = <<>>
    /\ item_ids = <<>>
    /\ pc = "start"
    /\ next_deferred = 1
    /\ last = NoLocals
    /\ visits = [i \in Ids |-> NoVisit]
    /\ deferred_before = <<>>

\* serde_json::from_str(raw) succeeds, and the root id is queued.
Deserialize ==
    /\ pc = "start"
    /\ raw' \in RawDocs
    /\ unprocessed' = Append(unprocessed, <<None, raw'.root>>)
    /\ pc' = "loop"
    /\ UNCHANGED <<deferred_imports, crates, paths, items, root_id, crate_ids,
                   path_ids, item_ids, next_deferred, last, visits,
                   deferred_before>>

\* serde_json::from_str(raw) fails: parse() returns the ApiParse error.
DeserializeFails ==
    /\ pc = "start"
    /\ pc' = "error"
    /\ UNCHANGED <<raw, unprocessed, deferred_imports, crates, paths, items,
                   root_id, crate_ids, path_ids, item_ids, next_deferred,
                   last, visits, deferred_before>>

Store(self) ==
    /\ unprocessed' = self.unprocessed
    /\ deferred_imports' = self.deferred_imports
    /\ crates' = self.crates
    /\ paths' = self.paths
    /\ items' = self.items
    /\ root_id' = self.root_id
    /\ crate_ids' = self.crate_ids
    /\ path_ids' = self.path_ids
    /\ item_ids' = self.item_ids

\* while let Some((parent_path_id, raw_item_id)) = self.unprocessed.pop_front()
Visit ==
    /\ pc = "loop"
    /\ unprocessed # <<>>
    /\ LET b == LoopBody(Self)
       IN /\ Store(b.self)
          /\ pc' = IF b.self.panicked THEN "abort"
                   ELSE IF b.self.unprocessed = <<>> THEN "deferred"
                   ELSE "loop"
          /\ last' = Locals(b)
          /\ visits' = [visits EXCEPT ![b.raw_item_id] = Record(@, Self, b)]
    /\ UNCHANGED <<raw, next_deferred, deferred_before>>

\* for (parent_path_id, name, raw_target_id) in self.deferred_imports
Deferred ==
    /\ pc = "deferred"
    /\ next_deferred <= Len(deferred_imports)
    /\ LET self == DeferredBody(Self, deferred_imports[next_deferred])
       IN /\ Store(self)
          /\ pc' = IF self.panicked THEN "abort" ELSE "deferred"
    /\ next_deferred' = next_deferred + 1
    /\ deferred_before' = Append(deferred_before, paths)
    /\ UNCHANGED <<raw, last, visits>>

\* Ok(self.api)
Finish ==
    /\ pc = "deferred"
    /\ next_deferred > Len(deferred_imports)
    /\ pc' = "done"
    /\ UNCHANGED <<raw, unprocessed, deferred_imports, crates, paths, items,
                   root_id, crate_ids, path_ids, item_ids, next_deferred,
                   last, visits, deferred_before>>

Next == Deserialize \/ DeserializeFails \/ Visit \/ Deferred \/ Finish

Spec == Init /\ [][Next]_vars

TypeOK == pc \in {"start", "error", "loop", "deferred", "done", "abort"}

(***************************************************************************)
(* Properties.                                                             *)
(***************************************************************************)
Visited == {i \in Ids : visits[i].popped}

\* C1: a raw id that the loop pops more than once (any id, in fact) has at
\* most one Path and at most one Item pushed by all its iterations
\* together, and _parse_path and _parse_item return one and the same value
\* in every iteration that pops it.
C1_IdempotentResolution ==
    \A i \in Ids :
        /\ visits[i].paths_made <= 1
        /\ visits[i].items_made <= 1
        /\ Cardinality(visits[i].path_rets) <= 1
        /\ Cardinality(visits[i].item_rets) <= 1

\* An id with a path and an item of its own was popped twice, with two
\* different parents, and both pops ran to the end of the iteration.
C1_Witness ==
    \E i \in Ids :
        /\ visits[i].repopped
        /\ Cardinality(visits[i].parents) >= 2
        /\ visits[i].paths_made = 1
        /\ visits[i].items_made = 1
        /\ last.raw_item_id = i
        /\ last.stage = "end"
        /\ IsSome(last.path_ret)
        /\ IsSome(last.item_ret)

VisitedCrateNumbers ==
    {Unwrap(raw.index[i]).crate_id : i \in {v \in Visited : IsSome(raw.index[v])}}

\* C5: crate number 0 has no Crate; every other crate number on a popped
\* item has exactly one Crate, named as external_crates names it, however
\* many popped items carry the number; and _parse_crate returned that
\* handle for every one of them.
C5_OneCratePerNumber ==
    /\ DOMAIN crate_ids = VisitedCrateNumbers
    /\ Len(crates) = Cardinality(VisitedCrateNumbers \ {0})
    /\ \A n \in VisitedCrateNumbers :
           IF n = 0 THEN crate_ids[n] = None
           ELSE /\ IsSome(crate_ids[n])
                /\ Unwrap(crate_ids[n]) \in 1..Len(crates)
                /\ crates[Unwrap(crate_ids[n])].name = raw.external_crates[n].name
    /\ \A m, n \in VisitedCrateNumbers :
           (m # n /\ m # 0 /\ n # 0) => crate_ids[m] # crate_ids[n]
    /\ \A i \in Visited :
           IsSome(raw.index[i]) =>
               visits[i].crate_rets = {crate_ids[Unwrap(raw.index[i]).crate_id]}

\* parse() returned after it popped an item of crate number 0 and two
\* items of crate number 7, and there is one Crate.
C5_Witness ==
    /\ pc = "done"
    /\ VisitedCrateNumbers = {0, 7}
    /\ \E i, j \in Visited :
           /\ i # j
           /\ Unwrap(raw.index[i]).crate_id = 7
           /\ Unwrap(raw.index[j]).crate_id = 7
    /\ Len(crates) = 1

\* C3: a path made for a module, trait, impl or enum never has an item
\* handle, whatever the members of that container are.
C3_ContainersHaveNoItem ==
    \A i \in Ids :
        ( /\ i \in DOMAIN path_ids
          /\ IsSome(path_ids[i])
          /\ IsSome(raw.index[i])
          /\ IsContainer(Unwrap(raw.index[i]).inner) )
        => paths[Unwrap(path_ids[i])].item_id = None

\* C4: an item handle that is set is never assigned again.
C4_ItemHandleSetOnce ==
    [][\A p \in 1..Len(paths) :
           IsSome(paths[p].item_id) => paths'[p].item_id = paths[p].item_id]_vars

\* C6: an iteration that pops an id with no entry in `paths` gets None from
\* _parse_path, which leaves the arena of paths (child lists included) as
\* the iteration found it and memoizes None; the iteration goes on with the
\* parent handle it popped; and no iteration ever pushes a path for that id.
C6_UnlistedIdReusesParent ==
    [][ ( /\ pc = "loop"
          /\ last'.stage \in {"item", "end"}
          /\ ~IsSome(raw.paths[last'.raw_item_id]) )
        => /\ last'.path_ret = None
           /\ last'.after_path = paths
           /\ last'.parent_path_id = Head(unprocessed)[1]
           /\ last'.path_id = last'.parent_path_id
           /\ path_ids'[last'.raw_item_id] = None
           /\ visits'[last'.raw_item_id].paths_made = 0 ]_vars

\* An id with no entry in `paths` was popped with a parent, and its
\* iteration went on with the parent's handle.
C6_Witness ==
    /\ last.stage = "end"
    /\ ~IsSome(raw.paths[last.raw_item_id])
    /\ IsSome(last.parent_path_id)
    /\ last.path_id = last.parent_path_id
    /\ paths # <<>>

\* C7: the path root_id names has kind Module.
C7_RootIsModule ==
    IsSome(root_id) => paths[Unwrap(root_id)].kind = "Module"

\* C8: root_id is None exactly while the arena of paths is empty; once set
\* it is the handle of the first path pushed and does not change; and
\* there is no Item while it is None.
C8_RootIsFirstPath ==
    /\ [](/\ (root_id = None) <=> (paths = <<>>)
          /\ IsSome(root_id) => root_id = Some(NextHandle(<<>>))
          /\ (root_id = None) => (items = <<>>))
    /\ [][IsSome(root_id) => root_id' = root_id]_vars

\* parse() returned a graph of several paths, made in both passes, and of
\* at least one item, and root_id names the first path.
C8_Witness ==
    /\ pc = "done"
    /\ root_id = Some(1)
    /\ Len(paths) >= 3
    /\ deferred_before # <<>>
    /\ items # <<>>

(***************************************************************************)
(* The shape of a raw document.                                            *)
(***************************************************************************)
\* The ids a container lists as its members.
MembersOf(i) ==
    IF IsSome(raw.index[i]) /\ IsContainer(Unwrap(raw.index[i]).inner)
    THEN {Unwrap(raw.index[i]).items[k] : k \in 1..Len(Unwrap(raw.index[i]).items)}
    ELSE {}

\* The target of an import.
TargetsOf(i) ==
    IF IsSome(raw.index[i]) /\ Unwrap(raw.index[i]).inner = "import"
       /\ IsSome(Unwrap(raw.index[i]).import_id)
    THEN {Unwrap(Unwrap(raw.index[i]).import_id)}
    ELSE {}

RECURSIVE MembersClosure(_)
MembersClosure(seen) ==
    LET more == seen \cup UNION {MembersOf(i) : i \in seen}
    IN IF more = seen THEN seen ELSE MembersClosure(more)

\* The ids container i contains, directly or through other containers.
ContainedIn(i) == IF MembersOf(i) = {} THEN {} ELSE MembersClosure(MembersOf(i))

RECURSIVE EnqueuedClosure(_)
EnqueuedClosure(seen) ==
    LET more == seen \cup UNION {MembersOf(i) \cup TargetsOf(i) : i \in seen}
    IN IF more = seen THEN seen ELSE EnqueuedClosure(more)

\* The ids the traversal can enqueue: the root, and the members and import
\* targets of what it can enqueue.
Enqueueable == EnqueuedClosure({raw.root})

AcyclicMembership == \A i \in Ids : i \notin ContainedIn(i)

\* A container the traversal reaches contains itself.
CyclicMembership == \E i \in Enqueueable : i \in ContainedIn(i)

AllInIndex == \A i \in Enqueueable : IsSome(raw.index[i])

\* parse() returned after the queue ran empty and the for loop took every
\* deferred import once.
Finished ==
    /\ pc = "done"
    /\ unprocessed = <<>>
    /\ next_deferred = Len(deferred_imports) + 1
    /\ Len(deferred_before) = Len(deferred_imports)

\* What the first resolution of id i can add to the queue and to the
\* deferred imports.
Fanout(i) ==
    IF ~IsSome(raw.index[i]) THEN 0
    ELSE IF IsContainer(Unwrap(raw.index[i]).inner)
    THEN Len(Unwrap(raw.index[i]).items)
    ELSE IF Unwrap(raw.index[i]).inner = "import" THEN 2
    ELSE 0

RECURSIVE SumFanout(_)
SumFanout(S) ==
    IF S = {} THEN 0
    ELSE LET i == CHOOSE x \in S : TRUE
         IN Fanout(i) + SumFanout(S \ {i})

\* A bound on the steps parse() still has to take: the queue entries and
\* deferred imports at hand, those that ids not yet resolved can add, and
\* the step that ends it.
StepsLeft ==
    Len(unprocessed) + SumFanout(Ids \ DOMAIN item_ids)
        + (Len(deferred_imports) + 1 - next_deferred)
        + (IF pc \in {"loop", "deferred"} THEN 1 ELSE 0)

\* parse() is in one of its two loops and has its next step to take: the
\* while loop has an entry to pop; the for loop takes the next deferred
\* import, or is over and parse() returns.
CanStep ==
    \/ pc = "loop" /\ unprocessed # <<>>
    \/ pc = "deferred"

Ended == pc \in {"done", "abort"}

\* C9 as stated: on an acyclic document whose enqueued ids are all in the
\* index, parse() ends by returning, after the queue ran empty and the for
\* loop took every deferred import once; that is, it does not end in a
\* panic.
C9_AcyclicFinishes ==
    (pc # "start" /\ AcyclicMembership /\ AllInIndex) => pc # "abort"

\* C9, amended: on such a document parse() ends, by a panic or by
\* returning after the queue ran empty and the for loop took every
\* deferred import once: until it has ended it has a step to take, every
\* step lowers StepsLeft, a natural number, and it returns only in the
\* state described.
C9_AcyclicTerminates ==
    /\ []((pc # "start" /\ AcyclicMembership /\ AllInIndex) =>
            /\ StepsLeft \in Nat
            /\ Ended \/ CanStep
            /\ pc = "done" => Finished)
    /\ [][(pc # "start" /\ AcyclicMembership /\ AllInIndex) =>
            StepsLeft' < StepsLeft]_vars

\* parse() returned on an acyclic document, all of whose ids were popped,
\* with deferred imports.
C9_Witness ==
    /\ AcyclicMembership
    /\ AllInIndex
    /\ Finished
    /\ Visited = Ids
    /\ deferred_imports # <<>>

\* C10 as stated: on a document with a membership cycle the queue never
\* runs empty and parse() never returns a graph.
C10_CyclicNeverFinishes ==
    CyclicMembership => (unprocessed # <<>> /\ pc # "done")

\* C10, amended: on a document with a membership cycle parse() ends as
\* well, by returning or by a panic: until it has ended it has a step to
\* take, and every step lowers StepsLeft, a natural number.
C10_CyclicTerminates ==
    /\ []((pc # "start" /\ CyclicMembership) =>
            /\ StepsLeft \in Nat
            /\ Ended \/ CanStep)
    /\ [][(pc # "start" /\ CyclicMembership) => StepsLeft' < StepsLeft]_vars

\* parse() returned on a document in which a container contains itself,
\* after popping that container more than once.
C10_Witness ==
    /\ Finished
    /\ \E i \in Ids :
           /\ i \in ContainedIn(i)
           /\ visits[i].repopped

\* The for loop over deferred_imports has been entered.
InDeferredPass ==
    \/ pc \in {"deferred", "done"}
    \/ pc = "abort" /\ deferred_before # <<>>

\* C11: no iteration of the for loop (none makes an alias) runs while the
\* queue has an entry, before or after the step; and whenever the for loop
\* has been entered the queue is empty and the target id of every deferred
\* import has been popped and has an entry in path_ids and in item_ids.
C11_DeferredAfterTraversal ==
    /\ [](InDeferredPass =>
            /\ unprocessed = <<>>
            /\ \A k \in 1..Len(deferred_imports) :
                   LET t == deferred_imports[k][3]
                   IN /\ visits[t].popped
                      /\ t \in DOMAIN path_ids
                      /\ t \in DOMAIN item_ids)
    /\ [][(unprocessed # <<>> \/ unprocessed' # <<>>) =>
              /\ deferred_before' = deferred_before
              /\ next_deferred' = next_deferred]_vars

\* parse() returned a graph with an alias whose target id was popped once
\* only, by the entry its import queued: it was resolved after the import.
C11_Witness ==
    /\ pc = "done"
    /\ \E k \in 1..Len(deferred_imports) :
           LET t == deferred_imports[k][3]
           IN /\ visits[t].popped
              /\ ~visits[t].repopped
              /\ IsSome(path_ids[t])
              /\ Len(paths) > Len(deferred_before[k])

\* The ids whose descriptor is of a kind that gets an Item, and that have
\* an entry in `paths`.
ListedLeaves ==
    {i \in Ids : /\ IsSome(raw.index[i])
                 /\ ~IsContainer(Unwrap(raw.index[i]).inner)
                 /\ Unwrap(raw.index[i]).inner # "import"
                 /\ IsSome(raw.paths[i])}

\* Scenario A: the root is the module "lib" whose one member is the
\* function "lib::f".
ScenarioA ==
    /\ IsSome(raw.index[1]) /\ IsSome(raw.paths[1])
    /\ Unwrap(raw.index[1]).inner = "module"
    /\ Unwrap(raw.index[1]).items = <<2>>
    /\ Unwrap(raw.paths[1]).path = <<"lib">>
    /\ IsSome(raw.index[2]) /\ IsSome(raw.paths[2])
    /\ Unwrap(raw.index[2]).inner = "function"
    /\ Unwrap(raw.paths[2]).kind = "function"
    /\ Unwrap(raw.paths[2]).path = <<"lib", "f">>

\* C12: for every leaf id with an entry in `paths` whose iteration ran to
\* its end, the iterations that popped it pushed exactly one Item, which
\* has the raw item's name, the handle _parse_crate gave for its crate
\* number, and its span; the id has a path of its own, and from then on,
\* so in the graph parse() returns, that path's item_id is that Item.  On
\* Scenario A parse() returns the root path (Module, "lib") with the one
\* child (Function, "lib::f") whose item_id names the only Item, "f".
C12_LeafItem ==
    /\ \A i \in ListedLeaves :
           i \in DOMAIN item_ids =>
               /\ visits[i].items_made = 1
               /\ IsSome(item_ids[i])
               /\ Unwrap(item_ids[i]) \in 1..Len(items)
               /\ LET raw_item == Unwrap(raw.index[i])
                      item == items[Unwrap(item_ids[i])]
                  IN /\ item.name = raw_item.name
                     /\ item.crate_id = crate_ids[raw_item.crate_id]
                     /\ item.span = ConvertSpan(raw_item.span)
               /\ i \in DOMAIN path_ids
               /\ IsSome(path_ids[i])
               /\ paths[Unwrap(path_ids[i])].item_id = item_ids[i]
               /\ \A j \in ListedLeaves \ {i} :
                      j \in DOMAIN item_ids => item_ids[j] # item_ids[i]
    /\ (ScenarioA /\ pc = "done") =>
           /\ root_id = Some(1)
           /\ Len(paths) = 2
           /\ paths[1].kind = "Module" /\ paths[1].path = "lib"
           /\ paths[1].children = <<2>> /\ paths[1].item_id = None
           /\ paths[2].kind = "Function" /\ paths[2].path = "lib::f"
           /\ paths[2].children = <<>> /\ paths[2].item_id = Some(1)
           /\ Len(items) = 1
           /\ items[1].name = Some("f")

\* parse() returned the graph of Scenario A.
C12_Witness ==
    /\ ScenarioA
    /\ pc = "done"
    /\ 2 \in DOMAIN item_ids
    /\ Len(items) = 1

\* The id at the head of the queue.
HeadId == Head(unprocessed)[2]

\* The three faults, as the iteration about to run meets them: the popped
\* id is not in `index`; its entry in `paths` has the kind struct_field and
\* _parse_path has not memoized the id; it is a leaf with no entry in
\* `paths` and no path has been made, so that root_id is None when
\* _parse_item gets to it.
IndexFault == ~IsSome(raw.index[HeadId])

StructFieldFault ==
    /\ IsSome(raw.index[HeadId])
    /\ HeadId \notin DOMAIN path_ids
    /\ IsSome(raw.paths[HeadId])
    /\ Unwrap(raw.paths[HeadId]).kind = "struct_field"

RootUnsetFault ==
    /\ IsSome(raw.index[HeadId])
    /\ ~IsContainer(Unwrap(raw.index[HeadId]).inner)
    /\ Unwrap(raw.index[HeadId]).inner # "import"
    /\ ~IsSome(raw.paths[HeadId])
    /\ root_id = None

\* C13: an iteration that meets one of the three faults ends parse() in a
\* panic, and after a panic parse() neither returns a graph nor the
\* ApiParse error: nothing follows it.
C13_FaultsAbort ==
    /\ [][(pc = "loop" /\ unprocessed # <<>>
             /\ (IndexFault \/ StructFieldFault \/ RootUnsetFault))
          => pc' = "abort"]_vars
    /\ [][pc = "abort" => pc' = "abort"]_vars

\* parse() panicked on a member id that is not in `index`, after it made
\* a path.
C13_Witness ==
    /\ pc = "abort"
    /\ last.stage = "index"
    /\ ~IsSome(raw.index[last.raw_item_id])
    /\ IsSome(last.parent_path_id)
    /\ paths # <<>>

\* parse() panicked on the struct_field kind in `paths`.
StructFieldAbort ==
    /\ pc = "abort"
    /\ last.stage = "path"
    /\ IsSome(raw.paths[last.raw_item_id])
    /\ Unwrap(raw.paths[last.raw_item_id]).kind = "struct_field"

\* parse() panicked on a leaf resolved while root_id is None.
RootUnsetAbort ==
    /\ pc = "abort"
    /\ last.stage = "item"
    /\ root_id = None
    /\ Unwrap(raw.index[last.raw_item_id]).inner = "function"

\* C14: an iteration that pops an id whose resolution was completed before
\* (it has an entry in item_ids, Some or None) takes the entry off the
\* queue and changes nothing else, whatever the parent in the entry: the
\* arenas (so every child list and item handle), root_id, the three memo
\* tables and the deferred imports are as before, nothing is added to the
\* queue, and the iteration does not panic.
C14_RepeatVisitChangesNothing ==
    [][(pc = "loop" /\ unprocessed # <<>> /\ HeadId \in DOMAIN item_ids) =>
          /\ unprocessed' = Tail(unprocessed)
          /\ UNCHANGED <<crates, paths, items, root_id, crate_ids, path_ids,
                         item_ids, deferred_imports>>
          /\ pc' # "abort"]_vars

\* A container with members, memoized as "no item", was just popped a
\* second time, with another parent than the first time.
C14_Witness ==
    /\ last.stage = "end"
    /\ LET i == last.raw_item_id
       IN /\ i \in Ids
          /\ visits[i].repopped
          /\ Cardinality(visits[i].parents) >= 2
          /\ item_ids[i] = None
          /\ MembersOf(i) # {}

\* An import was just popped a second time.
RepeatedImport ==
    /\ last.stage = "end"
    /\ last.raw_item_id \in Ids
    /\ visits[last.raw_item_id].repopped
    /\ TargetsOf(last.raw_item_id) # {}

\* Sequence s is the beginning of sequence t.
IsPrefix(s, t) == Len(s) <= Len(t) /\ SubSeq(t, 1, Len(s)) = s

\* C15: no step of parse() removes or reorders an entry of an arena or of
\* a child list: every arena is as long as before or longer; a CrateId or
\* ItemId names the entry it named; a PathId names a path of the kind,
\* name, crate handle and span it had, whose child list begins with the
\* child list it had.
C15_AppendOnly ==
    [][/\ IsPrefix(crates, crates')
       /\ IsPrefix(items, items')
       /\ Len(paths) <= Len(paths')
       /\ \A p \in 1..Len(paths) :
              /\ paths'[p].kind = paths[p].kind
              /\ paths'[p].path = paths[p].path
              /\ paths'[p].crate_id = paths[p].crate_id
              /\ paths'[p].span = paths[p].span
              /\ IsPrefix(paths[p].children, paths'[p].children)]_vars

\* parse() returned a graph with a crate and an item, in which a path got
\* a child in the traversal and another, an alias, in the for loop.
C15_Witness ==
    /\ pc = "done"
    /\ crates # <<>>
    /\ items # <<>>
    /\ deferred_before # <<>>
    /\ \E p \in 1..Len(deferred_before[1]) :
           /\ deferred_before[1][p].children # <<>>
           /\ Len(paths[p].children) > Len(deferred_before[1][p].children)

\* C16: an iteration of the for loop over deferred_imports leaves the
\* arenas of crates and items and root_id as they are, and every path
\* there is as it is, but for the parent of the task, which gets exactly
\* one more child, at the end, the handle of the path the iteration
\* pushes; so no item_id of a path there is changes, and the target's
\* path, when it is not the parent, is as before at the handle it had.
\* An iteration that panics changes none of them.
C16_DeferredFrame ==
    [][(pc = "deferred" /\ next_deferred <= Len(deferred_imports)) =>
          LET parent_path_id == deferred_imports[next_deferred][1]
          IN /\ UNCHANGED <<crates, items, root_id>>
             /\ IF pc' = "abort" THEN paths' = paths
                ELSE /\ Len(paths') = Len(paths) + 1
                     /\ \A p \in 1..Len(paths) :
                            paths'[p] =
                                IF p = parent_path_id
                                THEN [paths[p] EXCEPT
                                         !.children = Append(@, Len(paths) + 1)]
                                ELSE paths[p]]_vars

\* An iteration of the for loop has just made an alias of a target that
\* is not the parent and has an item.
C16_Witness ==
    /\ pc = "deferred"
    /\ next_deferred > 1
    /\ LET k == next_deferred - 1
           M == deferred_imports[k][1]
           P == Unwrap(path_ids[deferred_imports[k][3]])
       IN /\ M # P
          /\ IsSome(paths[P].item_id)
          /\ paths[P] = deferred_before[k][P]
          /\ Len(paths) = Len(deferred_before[k]) + 1

\* C17: (1) when the target of a deferred import has no entry in `paths`,
\* parse() does not return: the target is memoized without a path, and the
\* iteration of the for loop that takes the import panics and leaves the
\* arena of paths as it found it.  (2) An iteration of the while loop that
\* resolves an import with no entry in `paths`, popped without a parent,
\* panics and records no deferred import.
C17_ImportWithoutPathAborts ==
    /\ [](\A k \in 1..Len(deferred_imports) :
              ~IsSome(raw.paths[deferred_imports[k][3]]) =>
                  /\ pc # "done"
                  /\ k <= Len(deferred_before) =>
                         /\ path_ids[deferred_imports[k][3]] = None
                         /\ k = Len(deferred_before)
                         /\ pc = "abort"
                         /\ paths = deferred_before[k])
    /\ [][(/\ pc = "loop" /\ unprocessed # <<>>
           /\ IsSome(raw.index[HeadId])
           /\ Unwrap(raw.index[HeadId]).inner = "import"
           /\ HeadId \notin DOMAIN item_ids
           /\ ~IsSome(raw.paths[HeadId])
           /\ Head(unprocessed)[1] = None)
          => /\ pc' = "abort"
             /\ deferred_imports' = deferred_imports
             /\ paths' = paths]_vars

\* The for loop panicked on an import whose target, a function with no
\* entry in `paths`, was resolved to an Item in the traversal.
C17_Witness ==
    /\ pc = "abort"
    /\ deferred_before # <<>>
    /\ LET t == deferred_imports[Len(deferred_before)][3]
       IN /\ ~IsSome(raw.paths[t])
          /\ path_ids[t] = None
          /\ IsSome(item_ids[t])
          /\ paths = deferred_before[Len(deferred_before)]

\* The while loop panicked on an import that has no path handle.
ImportWithoutParentAbort ==
    /\ pc = "abort"
    /\ last.stage = "item"
    /\ Unwrap(raw.index[last.raw_item_id]).inner = "import"
    /\ last.path_id = None
    /\ IsSome(Unwrap(raw.index[last.raw_item_id]).import_id)

\* The places of handle h in the child lists of an arena of paths.
Occurrences(arena, h) ==
    {pk \in UNION {{<<p, k>> : k \in 1..Len(arena[p].children)} :
                       p \in 1..Len(arena)} :
        arena[pk[1]].children[pk[2]] = h}

\* No iteration of the for loop over deferred_imports has run.
InTraversal == deferred_before = <<>> /\ pc # "start"

NoDuplicates(list) ==
    \A j, k \in 1..Len(list) : j # k => list[j] # list[k]

\* C18: an iteration of the while loop that pushes a path appends its
\* handle to the child list of the parent it popped, if any, and to no
\* other; an iteration that pops an id _parse_path has memoized changes no
\* child list, whatever parent it popped.  So, as long as the for loop has
\* not run, every handle has at most one place in all the child lists, and
\* in the graph parse() returns no child list holds a handle twice.
C18_OneParent ==
    /\ [][(pc = "loop" /\ unprocessed # <<>>) =>
            LET parent_path_id == Head(unprocessed)[1]
                made == Len(paths') > Len(paths)
            IN /\ Len(paths') <= Len(paths) + 1
               /\ HeadId \in DOMAIN path_ids => ~made
               /\ \A p \in 1..Len(paths) :
                      paths'[p].children =
                          IF made /\ parent_path_id = Some(p)
                          THEN Append(paths[p].children, Len(paths'))
                          ELSE paths[p].children
               /\ made => paths'[Len(paths')].children = <<>>]_vars
    /\ [](InTraversal =>
              \A h \in 1..Len(paths) : Cardinality(Occurrences(paths, h)) <= 1)
    /\ [](pc = "done" =>
              \A p \in 1..Len(paths) : NoDuplicates(paths[p].children))

\* The traversal is over; an id with a path was popped with two parents,
\* both paths, and its handle has one place in all the child lists.
C18_Witness ==
    /\ pc = "deferred"
    /\ InTraversal
    /\ \E i \in Ids :
           /\ Cardinality(visits[i].parents \ {None}) >= 2
           /\ i \in DOMAIN path_ids
           /\ IsSome(path_ids[i])
           /\ Cardinality(Occurrences(paths, Unwrap(path_ids[i]))) = 1

\* The handle of the alias the k-th iteration of the for loop pushed.
AliasOf(k) == Len(deferred_before[k]) + 1

\* The handles of the paths pushed in the for loop.
Aliases ==
    IF deferred_before = <<>> THEN {}
    ELSE (Len(deferred_before[1]) + 1)..Len(paths)

\* C19: in the graph parse() returns, the child list of the alias of every
\* deferred import is the child list its target had when the alias was
\* made, which is the beginning of the child list the target has in the
\* end, and holds no handle of a path pushed from then on; and no step
\* changes a path pushed in the for loop.
C19_AliasChildrenPrefix ==
    /\ [](pc = "done" =>
            \A k \in 1..Len(deferred_imports) :
                LET a == AliasOf(k)
                    P == Unwrap(path_ids[deferred_imports[k][3]])
                IN /\ a \in 1..Len(paths)
                   /\ paths[a].children = deferred_before[k][P].children
                   /\ IsPrefix(paths[a].children, paths[P].children)
                   /\ \A c \in 1..Len(paths[a].children) :
                          paths[a].children[c] < a)
    /\ [][\A a \in Aliases : paths'[a] = paths[a]]_vars

\* parse() returned a graph in which an alias has children and its target
\* has those and, after them, an alias a deferred import appended.
C19_Witness ==
    /\ pc = "done"
    /\ \E k \in 1..Len(deferred_imports) :
           LET a == AliasOf(k)
               P == Unwrap(path_ids[deferred_imports[k][3]])
           IN /\ paths[a].children # <<>>
              /\ Len(paths[P].children) > Len(paths[a].children)
              /\ paths[P].children[Len(paths[a].children) + 1] \in Aliases

\* An optional handle is None or names an entry of the arena.
ValidIn(arena, option) == IsSome(option) => IsSome(Get(arena, Unwrap(option)))

\* C20: every handle the parser or the graph holds names an entry of its
\* arena: root_id; every path's crate_id, item_id and children; every
\* item's crate_id; the parents in the queue and in the deferred imports;
\* and the handles in crate_ids, path_ids and item_ids.  So the lookups by
\* these handles find their entries.
C20_HandlesValid ==
    /\ ValidIn(paths, root_id)
    /\ \A p \in 1..Len(paths) :
           /\ ValidIn(crates, paths[p].crate_id)
           /\ ValidIn(items, paths[p].item_id)
           /\ \A c \in 1..Len(paths[p].children) :
                  ValidIn(paths, Some(paths[p].children[c]))
    /\ \A i \in 1..Len(items) : ValidIn(crates, items[i].crate_id)
    /\ \A q \in 1..Len(unprocessed) : ValidIn(paths, unprocessed[q][1])
    /\ \A k \in 1..Len(deferred_imports) :
           ValidIn(paths, Some(deferred_imports[k][1]))
    /\ \A n \in DOMAIN crate_ids : ValidIn(crates, crate_ids[n])
    /\ \A i \in DOMAIN path_ids : ValidIn(paths, path_ids[i])
    /\ \A i \in DOMAIN item_ids : ValidIn(items, item_ids[i])

\* The while loop is under way with handles of every sort at hand: a
\* queue entry with a parent, a deferred import, a crate, and a path with
\* a crate, an item of that crate, and a parent that lists it.
C20_Witness ==
    /\ pc = "loop"
    /\ unprocessed # <<>>
    /\ IsSome(Head(unprocessed)[1])
    /\ deferred_imports # <<>>
    /\ crates # <<>>
    /\ IsSome(root_id)
    /\ \E p \in 1..Len(paths) :
           /\ IsSome(paths[p].crate_id)
           /\ IsSome(paths[p].item_id)
           /\ IsSome(items[Unwrap(paths[p].item_id)].crate_id)
           /\ \E q \in 1..Len(paths) :
                  \E c \in 1..Len(paths[q].children) : paths[q].children[c] = p

====
